---- MODULE Spec2Model ----
(***************************************************************************)
(* Model of the bundle2 part encoder                                       *)
(*   eden/mononoke/mercurial/bundles/src/part_encode.rs                    *)
(* PartEncodeBuilder configures a part (header, payload), build() turns it *)
(* into a PartEncode, and PartEncode::poll drives the GenerationState      *)
(* machine that yields the header chunk, the payload chunks and the empty  *)
(* chunk that ends the part.                                               *)
(***************************************************************************)
EXTENDS Integers, Sequences, FiniteSets, TLC

VARIABLES
    phase,       \* "building": the PartEncodeBuilder is alive; "encoding": build() consumed it
    mandatory,   \* PartEncodeBuilder.headerb: the flag fixed by mandatory() / advisory()
    data,        \* PartEncodeBuilder.data : PartEncodeData
    nsets,       \* number of payload-setting calls made on the builder
    state,       \* PartEncode.state : GenerationState
    pc,          \* position inside PartEncode::poll: "idle", or "taken" after state.take()
    held,        \* the GenerationState moved into poll_next by state.take()
    out,         \* the values polls have returned to the consumer, in order
    polls,       \* number of polls started
    panics,      \* number of polls that unwound with a panic
    innerPolls,  \* number of polls made of the supplied inner stream
    built,       \* what build() was given: the header and the payload
    lastSet,     \* the latest payload-setting call: its name, argument and success
    lastPoll,    \* how the latest finished poll ended: "returned" or "panicked"
    lastGood,    \* the latest payload-setting call that succeeded
    mparams,     \* PartEncodeBuilder.headerb: the mandatory parameters, in insertion order
    aparams,     \* PartEncodeBuilder.headerb: the advisory parameters, in insertion order
    lastAdd,     \* the latest add_mparam / add_aparam call and whether it succeeded
    other,       \* a second PartEncode, polled by another consumer
    tool         \* a run of copy_blobstore_keys: its arguments, locals and output files

paramVars == <<mparams, aparams, lastAdd>>

copyVars == <<tool>>

vars == <<phase, mandatory, data, nsets, state, pc, held, out, polls, panics,
          innerPolls, built, lastSet, lastPoll, lastGood, paramVars, other, copyVars>>

(***************************************************************************)
(* Bounds of the model.                                                    *)
(***************************************************************************)
MaxScript == 3   \* longest scripted inner stream
MaxPolls == 7    \* polls a consumer makes of one PartEncode
MaxSets == 1     \* payload-setting calls made on one builder
MaxSetsB == 2    \* the same, where the builder is reconfigured
MaxShortScript == 1  \* longest scripted inner stream given to a reconfigured builder
MaxWait == 1     \* not-ready results of a future before its outcome
MaxAdds == 2     \* add_mparam / add_aparam calls made on one builder
MaxPolls2 == 4   \* polls made of each of two PartEncodes polled side by side

(***************************************************************************)
(* Chunk (crate::chunk): an immutable byte buffer; the zero-length one is  *)
(* the end-of-part marker.                                                 *)
(***************************************************************************)
ChunkMaxLen == 2

ChunkEmpty == <<>>

IsEmpty(chunk) == Len(chunk) = 0

\* Chunk::new: framing a buffer fails when the buffer is over the size limit.
ChunkNew(bytes) ==
    IF Len(bytes) > ChunkMaxLen
    THEN [ok |-> FALSE, chunk |-> ChunkEmpty]
    ELSE [ok |-> TRUE, chunk |-> bytes]

\* Payload chunks and buffers the environment supplies.
PayloadChunks == {<<>>, <<9>>, <<7, 7>>}
Buffers == PayloadChunks \cup {<<7, 7, 7>>}
ErrorIds == {1, 2}
PartIds == {0, 1}
ParamKeys == {1, 2}
ParamVals == {5, 6}

(***************************************************************************)
(* PartHeader (crate::part_header): built by PartHeaderBuilder::build with *)
(* the part id; encode() serialises it to one non-empty chunk.             *)
(***************************************************************************)
HeaderBuild(m, mp, ap, part_id) ==
    [mandatory |-> m, part_id |-> part_id, mparams |-> mp, aparams |-> ap]

\* The keys and values of a parameter list, one after the other.
RECURSIVE FlattenParams(_)
FlattenParams(params) ==
    IF params = <<>> THEN <<>>
    ELSE <<Head(params)[1], Head(params)[2]>> \o FlattenParams(Tail(params))

HeaderEncode(header) ==
    <<IF header.mandatory THEN 1 ELSE 0, header.part_id,
      Len(header.mparams), Len(header.aparams)>>
        \o FlattenParams(header.mparams) \o FlattenParams(header.aparams)

\* PartHeaderBuilder::add_mparam / add_aparam on one parameter map: a key
\* already in the map is refused and the map is left as it was.
HasKey(params, key) == \E i \in 1..Len(params) : params[i][1] = key

HeaderAddParam(params, key, val) ==
    IF HasKey(params, key)
    THEN [ok |-> FALSE, params |-> params]
    ELSE [ok |-> TRUE, params |-> Append(params, <<key, val>>)]

(***************************************************************************)
(* Poll<Option<Chunk>, Error>                                              *)
(***************************************************************************)
ReadySome(chunk) == [kind |-> "chunk", val |-> chunk]
ReadyNone == [kind |-> "none", val |-> <<>>]
NotReady == [kind |-> "notready", val |-> <<>>]
Err(e) == [kind |-> "err", val |-> e]
Panic == [kind |-> "panic", val |-> <<>>]

(***************************************************************************)
(* The supplied inner stream, as the script of what its successive polls   *)
(* do: yield a chunk, report not-ready, fail with an error, or panic.      *)
(* Past the end of the script it reports exhaustion.                       *)
(***************************************************************************)
Events ==
    {ReadySome(c) : c \in PayloadChunks} \cup {Err(<<e>>) : e \in ErrorIds}
        \cup {NotReady, Panic}

RECURSIVE SeqsUpTo(_, _)
SeqsUpTo(S, n) ==
    IF n = 0 THEN {<<>>}
    ELSE LET shorter == SeqsUpTo(S, n - 1)
         IN  shorter \cup {Append(s, e) : s \in {t \in shorter : Len(t) = n - 1}, e \in S}

Scripts == SeqsUpTo(Events, MaxScript)

ShortScripts == SeqsUpTo(Events, MaxShortScript)

\* The futures given to set_data_future: each resolves to a buffer, fails or
\* panics, after some not-ready results.
FutureOutcomes ==
    {ReadySome(b) : b \in Buffers} \cup {Err(<<e>>) : e \in ErrorIds} \cup {Panic}

Futures ==
    {Append(waits, outcome) : waits \in SeqsUpTo({NotReady}, MaxWait),
                              outcome \in FutureOutcomes}

\* S::poll of the supplied stream: the result and the stream afterwards.
StreamPoll(stream) ==
    IF stream = <<>>
    THEN [ret |-> ReadyNone, stream |-> stream, polled |-> 1]
    ELSE [ret |-> Head(stream), stream |-> Tail(stream), polled |-> 1]

\* Variant: the supplied stream is boxed without the filter.
FilterPoll_NoFilter(stream) == StreamPoll(stream)

\* stream.filter(|chunk| !chunk.is_empty()): one poll of the filtered stream
\* polls the supplied stream until it has something other than an empty chunk.
RECURSIVE FilterPoll(_)
FilterPoll(stream) ==
    LET r == StreamPoll(stream)
    IN  IF r.ret.kind = "chunk" /\ IsEmpty(r.ret.val)
        THEN LET rest == FilterPoll(r.stream)
             IN  [rest EXCEPT !.polled = @ + r.polled]
        ELSE r

(***************************************************************************)
(* PartEncodeData and GenerationState                                      *)
(***************************************************************************)
DataNone == [tag |-> "None"]
DataFixed(chunk) == [tag |-> "Fixed", chunk |-> chunk]
DataGenerated(stream) == [tag |-> "Generated", stream |-> stream]

NotStarted(header, d) == [tag |-> "NotStarted", header |-> header, data |-> d]
Fixed(chunk) == [tag |-> "Fixed", chunk |-> chunk]
Generating(stream) == [tag |-> "Generating", stream |-> stream]
EmptyChunk == [tag |-> "EmptyChunk"]
Done == [tag |-> "Done"]
Invalid == [tag |-> "Invalid"]
Absent == [tag |-> "Absent"]   \* no PartEncode yet / nothing held

(***************************************************************************)
(* PartEncode::poll_next, one operator per match arm.  Each gives the      *)
(* value returned, the next state and the number of inner polls made.      *)
(***************************************************************************)
NextData(d) ==
    IF d.tag = "Fixed" THEN Fixed(d.chunk)
    ELSE IF d.tag = "None" THEN EmptyChunk
    ELSE Generating(d.stream)

\* Variant: a part without payload goes straight to the end marker, no header.
NotStartedArm_NoHeader(header, d) ==
    IF d.tag = "None"
    THEN [ret |-> ReadySome(ChunkEmpty), next |-> Done, polled |-> 0]
    ELSE [ret |-> ReadySome(HeaderEncode(header)), next |-> NextData(d), polled |-> 0]

NotStartedArm(header, d) ==
    [ret |-> ReadySome(HeaderEncode(header)), next |-> NextData(d), polled |-> 0]

\* Variants of the Generating arm: the arm as written, except that an inner
\* result of the given kind leads to the given next state.
GeneratingArmBut(stream, kind, next) ==
    LET r == FilterPoll(stream)
        ret == IF r.ret.kind = "chunk" THEN ReadySome(r.ret.val)
               ELSE IF r.ret.kind = "none" THEN ReadySome(ChunkEmpty)
               ELSE IF r.ret.kind = "notready" THEN NotReady
               ELSE IF r.ret.kind = "err" THEN Err(r.ret.val)
               ELSE Panic
        nxt == IF r.ret.kind = kind THEN next
               ELSE IF r.ret.kind = "none" THEN Done
               ELSE IF r.ret.kind = "panic" THEN Invalid
               ELSE Generating(r.stream)
    IN  [ret |-> ret, next |-> nxt, polled |-> r.polled]

\* Variant: a not-ready inner stream is dropped and the part is ended.
GeneratingArm_NotReadyEnds(stream) == GeneratingArmBut(stream, "notready", EmptyChunk)

\* Variant: an inner error ends the part.
GeneratingArm_ErrEnds(stream) == GeneratingArmBut(stream, "err", Done)

\* Variant: an inner error leaves the Invalid marker as the next state.
GeneratingArm_ErrInvalid(stream) == GeneratingArmBut(stream, "err", Invalid)

\* Variant: after yielding a chunk the arm keeps an exhausted stream.
GeneratingArm_ChunkDropsRest(stream) == GeneratingArmBut(stream, "chunk", Generating(<<>>))

\* Variant: an inner error fuses the stream: nothing is left of it afterwards.
GeneratingArm_ErrFuses(stream) == GeneratingArmBut(stream, "err", Generating(<<>>))

\* Variant: on exhaustion the arm keeps Generating over the exhausted stream.
GeneratingArm_NoneStays(stream) == GeneratingArmBut(stream, "none", Generating(<<>>))

GeneratingArm(stream) ==
    LET r == FilterPoll(stream)
    IN  IF r.ret.kind = "chunk"
        THEN [ret |-> ReadySome(r.ret.val), next |-> Generating(r.stream), polled |-> r.polled]
        ELSE IF r.ret.kind = "none"
        THEN [ret |-> ReadySome(ChunkEmpty), next |-> Done, polled |-> r.polled]
        ELSE IF r.ret.kind = "notready"
        THEN [ret |-> NotReady, next |-> Generating(r.stream), polled |-> r.polled]
        ELSE IF r.ret.kind = "err"
        THEN [ret |-> Err(r.ret.val), next |-> Generating(r.stream), polled |-> r.polled]
        ELSE [ret |-> Panic, next |-> Invalid, polled |-> r.polled]

\* Variant: the fixed payload is followed by Done, without the end marker.
FixedArm_NoTerminator(chunk) == [ret |-> ReadySome(chunk), next |-> Done, polled |-> 0]

\* Variant: the fixed payload is yielded without leaving Fixed.
FixedArm_Repeat(chunk) == [ret |-> ReadySome(chunk), next |-> Fixed(chunk), polled |-> 0]

\* Variant: the fixed payload is reported not ready once asked for.
FixedArm_Suspends(chunk) == [ret |-> NotReady, next |-> Fixed(chunk), polled |-> 0]

FixedArm(chunk) == [ret |-> ReadySome(chunk), next |-> EmptyChunk, polled |-> 0]

\* Variant: the end marker is emitted without leaving EmptyChunk.
EmptyChunkArm_Stay == [ret |-> ReadySome(ChunkEmpty), next |-> EmptyChunk, polled |-> 0]

EmptyChunkArm == [ret |-> ReadySome(ChunkEmpty), next |-> Done, polled |-> 0]

\* Variant: Done reports exhaustion but hands back EmptyChunk as the next state.
DoneArm_Restart == [ret |-> ReadyNone, next |-> EmptyChunk, polled |-> 0]

DoneArm == [ret |-> ReadyNone, next |-> Done, polled |-> 0]

\* Variant: the Invalid marker is reported as exhaustion instead of a panic.
InvalidArm_Exhausted == [ret |-> ReadyNone, next |-> Invalid, polled |-> 0]

InvalidArm == [ret |-> Panic, next |-> Invalid, polled |-> 0]

poll_next(st) ==
    IF st.tag = "NotStarted" THEN NotStartedArm(st.header, st.data)
    ELSE IF st.tag = "Generating" THEN GeneratingArm(st.stream)
    ELSE IF st.tag = "Fixed" THEN FixedArm(st.chunk)
    ELSE IF st.tag = "EmptyChunk" THEN EmptyChunkArm
    ELSE IF st.tag = "Done" THEN DoneArm
    ELSE InvalidArm

(***************************************************************************)
(* The copy_blobstore_keys tool is a separate program: while the part      *)
(* encoder is exercised it has read no key and touched no file.            *)
(***************************************************************************)
CopyNotRun == tool = Absent

(***************************************************************************)
(* Initial state: PartEncodeBuilder::mandatory / ::advisory.               *)
(***************************************************************************)
Init ==
    /\ phase = "building"
    /\ mandatory \in BOOLEAN
    /\ data = DataNone
    /\ nsets = 0
    /\ state = Absent
    /\ pc = "idle"
    /\ held = Absent
    /\ out = <<>>
    /\ polls = 0
    /\ panics = 0
    /\ innerPolls = 0
    /\ built = Absent
    /\ lastSet = Absent
    /\ lastPoll = "none"
    /\ lastGood = Absent
    /\ mparams = <<>>
    /\ aparams = <<>>
    /\ lastAdd = Absent
    /\ other = Absent
    /\ CopyNotRun

(***************************************************************************)
(* PartEncodeBuilder                                                       *)
(***************************************************************************)
\* The name and the success of a payload-setting call, kept with the next call.
PrevOf(call) == IF call.tag = "Call" THEN <<call.op, call.ok>> ELSE <<"none", TRUE>>

\* The error Chunk::new gives for a buffer it refuses.
ChunkNewError == <<0>>

\* set_data_future: future.and_then(Chunk::new).into_stream().  The future is
\* the script of its polls: not-ready results, then its one outcome.  The
\* stream made of it yields the chunk framed from the outcome (or the framing
\* error), then ends.
FutureStream(future) ==
    [i \in 1..Len(future) |->
        IF future[i].kind = "chunk"
        THEN LET c == ChunkNew(future[i].val)
             IN  IF c.ok THEN ReadySome(c.chunk) ELSE Err(ChunkNewError)
        ELSE future[i]]

\* Variant: a payload is set only while the builder has none.
SetFixed_FirstWins(chunks, max) ==
    /\ phase = "building"
    /\ nsets < max
    /\ \E chunk \in chunks :
           /\ data' = IF data.tag = "None" THEN DataFixed(chunk) ELSE data
           /\ lastSet' = [tag |-> "Call", prev |-> PrevOf(lastSet), op |-> "set_data_fixed", arg |-> chunk, ok |-> TRUE]
           /\ lastGood' = lastSet'
    /\ nsets' = nsets + 1
    /\ UNCHANGED <<phase, mandatory, state, pc, held, out, polls, panics, innerPolls,
                   built, lastPoll, paramVars, other, copyVars>>

SetFixed(chunks, max) ==
    /\ phase = "building"
    /\ nsets < max
    /\ \E chunk \in chunks :
           /\ data' = DataFixed(chunk)
           /\ lastSet' = [tag |-> "Call", prev |-> PrevOf(lastSet), op |-> "set_data_fixed", arg |-> chunk, ok |-> TRUE]
           /\ lastGood' = lastSet'
    /\ nsets' = nsets + 1
    /\ UNCHANGED <<phase, mandatory, state, pc, held, out, polls, panics, innerPolls,
                   built, lastPoll, paramVars, other, copyVars>>

\* Variant: the payload is cleared before the buffer is framed.
SetBytes_ClearsFirst(buffers, max) ==
    /\ phase = "building"
    /\ nsets < max
    /\ \E bytes \in buffers :
           LET c == ChunkNew(bytes)
           IN  /\ data' = IF c.ok THEN DataFixed(c.chunk) ELSE DataNone
               /\ lastSet' = [tag |-> "Call", prev |-> PrevOf(lastSet), op |-> "set_data_bytes", arg |-> bytes, ok |-> c.ok]
               /\ lastGood' = IF c.ok THEN lastSet' ELSE lastGood
    /\ nsets' = nsets + 1
    /\ UNCHANGED <<phase, mandatory, state, pc, held, out, polls, panics, innerPolls,
                   built, lastPoll, paramVars, other, copyVars>>

SetBytes(buffers, max) ==
    /\ phase = "building"
    /\ nsets < max
    /\ \E bytes \in buffers :
           LET c == ChunkNew(bytes)
           IN  /\ data' = IF c.ok THEN DataFixed(c.chunk) ELSE data
               /\ lastSet' = [tag |-> "Call", prev |-> PrevOf(lastSet), op |-> "set_data_bytes", arg |-> bytes, ok |-> c.ok]
               /\ lastGood' = IF c.ok THEN lastSet' ELSE lastGood
    /\ nsets' = nsets + 1
    /\ UNCHANGED <<phase, mandatory, state, pc, held, out, polls, panics, innerPolls,
                   built, lastPoll, paramVars, other, copyVars>>

SetGenerated(streams, max) ==
    /\ phase = "building"
    /\ nsets < max
    /\ \E stream \in streams :
           /\ data' = DataGenerated(stream)
           /\ lastSet' = [tag |-> "Call", prev |-> PrevOf(lastSet), op |-> "set_data_generated", arg |-> stream, ok |-> TRUE]
           /\ lastGood' = lastSet'
    /\ nsets' = nsets + 1
    /\ UNCHANGED <<phase, mandatory, state, pc, held, out, polls, panics, innerPolls,
                   built, lastPoll, paramVars, other, copyVars>>

SetFuture(futures, max) ==
    /\ phase = "building"
    /\ nsets < max
    /\ \E future \in futures :
           /\ data' = DataGenerated(FutureStream(future))
           /\ lastSet' = [tag |-> "Call", prev |-> PrevOf(lastSet), op |-> "set_data_future", arg |-> future, ok |-> TRUE]
           /\ lastGood' = lastSet'
    /\ nsets' = nsets + 1
    /\ UNCHANGED <<phase, mandatory, state, pc, held, out, polls, panics, innerPolls,
                   built, lastPoll, paramVars, other, copyVars>>

SetDataFixed == SetFixed(PayloadChunks, MaxSets)

SetDataBytes == SetBytes(Buffers, MaxSets)

SetDataGenerated == SetGenerated(Scripts, MaxSets)

\* Number of add_mparam / add_aparam calls made so far.
AddCount == IF lastAdd.tag = "Add" THEN lastAdd.n ELSE 0

\* Variant: add_mparam drops the header builder's error and returns Ok.
AddMparam_IgnoresError ==
    /\ phase = "building"
    /\ AddCount < MaxAdds
    /\ \E key \in ParamKeys, val \in ParamVals :
           LET r == HeaderAddParam(mparams, key, val)
           IN  /\ mparams' = r.params
               /\ lastAdd' = [tag |-> "Add", op |-> "add_mparam", key |-> key, val |-> val,
                              ok |-> TRUE, n |-> AddCount + 1]
    /\ UNCHANGED <<phase, mandatory, data, nsets, state, pc, held, out, polls, panics,
                   innerPolls, built, lastSet, lastPoll, lastGood, aparams, other, copyVars>>

\* add_mparam: self.headerb.add_mparam(key, val)?
AddMparam ==
    /\ phase = "building"
    /\ AddCount < MaxAdds
    /\ \E key \in ParamKeys, val \in ParamVals :
           LET r == HeaderAddParam(mparams, key, val)
           IN  /\ mparams' = r.params
               /\ lastAdd' = [tag |-> "Add", op |-> "add_mparam", key |-> key, val |-> val,
                              ok |-> r.ok, n |-> AddCount + 1]
    /\ UNCHANGED <<phase, mandatory, data, nsets, state, pc, held, out, polls, panics,
                   innerPolls, built, lastSet, lastPoll, lastGood, aparams, other, copyVars>>

\* add_aparam: self.headerb.add_aparam(key, val)?
AddAparam ==
    /\ phase = "building"
    /\ AddCount < MaxAdds
    /\ \E key \in ParamKeys, val \in ParamVals :
           LET r == HeaderAddParam(aparams, key, val)
           IN  /\ aparams' = r.params
               /\ lastAdd' = [tag |-> "Add", op |-> "add_aparam", key |-> key, val |-> val,
                              ok |-> r.ok, n |-> AddCount + 1]
    /\ UNCHANGED <<phase, mandatory, data, nsets, state, pc, held, out, polls, panics,
                   innerPolls, built, lastSet, lastPoll, lastGood, mparams, other, copyVars>>

Build ==
    /\ phase = "building"
    /\ \E part_id \in PartIds :
           LET header == HeaderBuild(mandatory, mparams, aparams, part_id)
           IN  /\ state' = NotStarted(header, data)
               /\ built' = [tag |-> "Built", header |-> header, data |-> data]
    /\ phase' = "encoding"
    /\ UNCHANGED <<mandatory, data, nsets, pc, held, out, polls, panics, innerPolls,
                   lastSet, lastPoll, lastGood, paramVars, other, copyVars>>

(***************************************************************************)
(* PartEncode::poll                                                        *)
(***************************************************************************)
\* self.state.take(): the state moves into poll_next, Invalid is left behind.
TakeUpTo(max) ==
    /\ phase = "encoding"
    /\ pc = "idle"
    /\ polls < max
    /\ held' = state
    /\ state' = Invalid
    /\ pc' = "taken"
    /\ polls' = polls + 1
    /\ UNCHANGED <<phase, mandatory, data, nsets, out, panics, innerPolls, built,
                   lastSet, lastPoll, lastGood, paramVars, other, copyVars>>

Take == TakeUpTo(MaxPolls)

\* poll_next returns: the next state is written back and ret goes to the caller.
PollReturn ==
    /\ pc = "taken"
    /\ LET r == poll_next(held)
       IN  /\ r.ret.kind # "panic"
           /\ state' = r.next
           /\ out' = Append(out, r.ret)
           /\ innerPolls' = innerPolls + r.polled
    /\ pc' = "idle"
    /\ held' = Absent
    /\ lastPoll' = "returned"
    /\ UNCHANGED <<phase, mandatory, data, nsets, polls, panics, built, lastSet,
                   lastGood, paramVars, other, copyVars>>

\* poll_next panics: the poll unwinds before the write-back.
PollPanic ==
    /\ pc = "taken"
    /\ LET r == poll_next(held)
       IN  /\ r.ret.kind = "panic"
           /\ innerPolls' = innerPolls + r.polled
    /\ panics' = panics + 1
    /\ pc' = "idle"
    /\ held' = Absent
    /\ lastPoll' = "panicked"
    /\ UNCHANGED <<phase, mandatory, data, nsets, state, out, polls, built, lastSet,
                   lastGood, paramVars, other, copyVars>>

Next ==
    \/ SetDataFixed
    \/ SetDataBytes
    \/ SetDataGenerated
    \/ Build
    \/ Take
    \/ PollReturn
    \/ PollPanic

Spec == Init /\ [][Next]_vars

(***************************************************************************)
(* A builder whose payload is set several times, by all four payload calls,*)
(* before the part is built and polled.                                    *)
(***************************************************************************)
NextB ==
    \/ SetFixed(PayloadChunks, MaxSetsB)
    \/ SetBytes(Buffers, MaxSetsB)
    \/ SetGenerated(ShortScripts, MaxSetsB)
    \/ SetFuture(Futures, MaxSetsB)
    \/ Build
    \/ Take
    \/ PollReturn
    \/ PollPanic

SpecB == Init /\ [][NextB]_vars

(***************************************************************************)
(* A builder given header parameters, then built without payload and       *)
(* polled.                                                                 *)
(***************************************************************************)
NextH ==
    \/ AddMparam
    \/ AddAparam
    \/ Build
    \/ Take
    \/ PollReturn

SpecH == Init /\ [][NextH]_vars

(***************************************************************************)
(* Two PartEncodes polled side by side.  The first is configured, built    *)
(* and polled as above; the second, `other`, starts built, in NotStarted,  *)
(* and has its own consumer.  Each poll works on the state of the          *)
(* PartEncode it is called on (&mut self).                                 *)
(***************************************************************************)
OtherData ==
    {DataNone, DataFixed(<<9>>),
     DataGenerated(<<ReadySome(<<7, 7>>), NotReady>>),
     DataGenerated(<<Err(<<1>>), ReadySome(<<>>)>>),
     DataGenerated(<<Panic>>)}

OtherPart(d) ==
    LET header == HeaderBuild(FALSE, <<>>, <<>>, 1)
    IN  [tag |-> "Part", state |-> NotStarted(header, d), pc |-> "idle", held |-> Absent,
         out |-> <<>>, polls |-> 0, built |-> [tag |-> "Built", header |-> header, data |-> d]]

Init2 ==
    /\ phase = "building"
    /\ mandatory = TRUE
    /\ data = DataNone
    /\ nsets = 0
    /\ state = Absent
    /\ pc = "idle"
    /\ held = Absent
    /\ out = <<>>
    /\ polls = 0
    /\ panics = 0
    /\ innerPolls = 0
    /\ built = Absent
    /\ lastSet = Absent
    /\ lastPoll = "none"
    /\ lastGood = Absent
    /\ mparams = <<>>
    /\ aparams = <<>>
    /\ lastAdd = Absent
    /\ other \in {OtherPart(d) : d \in OtherData}
    /\ CopyNotRun

firstVars == <<phase, mandatory, data, nsets, state, pc, held, out, polls, panics,
               innerPolls, built, lastSet, lastPoll, lastGood, paramVars>>

Take2 ==
    /\ other.pc = "idle"
    /\ other.polls < MaxPolls2
    /\ other' = [other EXCEPT !.held = other.state, !.state = Invalid, !.pc = "taken",
                               !.polls = @ + 1]
    /\ UNCHANGED <<firstVars, copyVars>>

\* Variant: the state is kept in one place shared by all PartEncodes.
PollReturn2_SharedState ==
    /\ other.pc = "taken"
    /\ LET r == poll_next(other.held)
       IN  /\ r.ret.kind # "panic"
           /\ other' = [other EXCEPT !.state = r.next, !.out = Append(@, r.ret),
                                      !.pc = "idle", !.held = Absent]
           /\ state' = IF phase = "encoding" /\ pc = "idle" THEN r.next ELSE state
    /\ UNCHANGED <<phase, mandatory, data, nsets, pc, held, out, polls, panics,
                   innerPolls, built, lastSet, lastPoll, lastGood, paramVars, copyVars>>

PollReturn2 ==
    /\ other.pc = "taken"
    /\ LET r == poll_next(other.held)
       IN  /\ r.ret.kind # "panic"
           /\ other' = [other EXCEPT !.state = r.next, !.out = Append(@, r.ret),
                                      !.pc = "idle", !.held = Absent]
    /\ UNCHANGED <<firstVars, copyVars>>

PollPanic2 ==
    /\ other.pc = "taken"
    /\ poll_next(other.held).ret.kind = "panic"
    /\ other' = [other EXCEPT !.pc = "idle", !.held = Absent]
    /\ UNCHANGED <<firstVars, copyVars>>

Next2 ==
    \/ SetFixed(PayloadChunks, 1)
    \/ SetGenerated(ShortScripts, 1)
    \/ Build
    \/ TakeUpTo(MaxPolls2)
    \/ PollReturn
    \/ PollPanic
    \/ Take2
    \/ PollReturn2
    \/ PollPanic2

Spec2 == Init2 /\ [][Next2]_vars

(***************************************************************************)
(* A part configured by at most one payload call and polled by a consumer  *)
(* that keeps polling: a poll that can start does start, and a poll that   *)
(* has started finishes.                                                   *)
(***************************************************************************)
NextLive ==
    \/ SetFixed(PayloadChunks, 1)
    \/ SetBytes(Buffers, 1)
    \/ SetGenerated(Scripts, 1)
    \/ Build
    \/ Take
    \/ PollReturn
    \/ PollPanic

SpecLive ==
    /\ Init
    /\ [][NextLive]_vars
    /\ WF_vars(Take)
    /\ WF_vars(PollReturn)
    /\ WF_vars(PollPanic)

(***************************************************************************)
(* The copy_blobstore_keys tool                                            *)
(*   eden/mononoke/cmds/copy_blobstore_keys/src/main.rs                    *)
(* run() reads the keys of the input file, creates the three output files, *)
(* copies each key from the source blobstore to the target blobstore with  *)
(* up to `concurrency` copies in flight                                    *)
(* (stream::iter(keys).map(..).buffered(concurrency)), and handles the     *)
(* results one by one: record_copy_result writes the key and a newline to  *)
(* one of the output files, and the loop counts the key or stops.          *)
(***************************************************************************)
MaxKeys == 3            \* longest input file, in lines
MaxConcurrency == 2     \* largest --concurrency
MaxWriteFailures == 1   \* writes to the output files that fail in one run

\* A key is a positive number; a line that starts with the prefix of the source
\* repo is its key plus RepoPrefix; a newline in an output file is NL.
RepoPrefix == 10
NL == 0

FileNames == {"successful", "missing", "error"}

\* Input files of n lines with distinct keys, the first q of them prefixed.
Lines(n, q) == [i \in 1..n |-> IF i <= q THEN RepoPrefix + i ELSE i]

InputFiles == {Lines(n, q) : n \in 0..MaxKeys, q \in 0..MaxKeys}

\* How the set-up of run goes wrong: the input file is not named, cannot be
\* opened or read; an output file is not named or cannot be created.
SetupOutcomes == {"ok", "no_input", "no_output"}

\* What the blobstores do for one input line: source get returns a value, returns
\* None or fails; target put, called only with a value, succeeds or fails.
BlobstoreOutcomes ==
    {[get |-> "value", put |-> "ok"], [get |-> "value", put |-> "fail"],
     [get |-> "none", put |-> "ok"], [get |-> "fail", put |-> "ok"]}

\* str::strip_prefix(&source_repo_prefix)
StripPrefix(line) ==
    IF line > RepoPrefix THEN [some |-> TRUE, key |-> line - RepoPrefix]
    ELSE [some |-> FALSE, key |-> line]

\* The loop that fills `keys`: with --strip-source-repo-prefix every line must
\* start with the prefix, and the key is the rest; otherwise the key is the line.
ReadKeys(lines, strip) ==
    IF ~strip THEN [ok |-> TRUE, keys |-> lines]
    ELSE IF \A i \in 1..Len(lines) : StripPrefix(lines[i]).some
    THEN [ok |-> TRUE, keys |-> [i \in 1..Len(lines) |-> StripPrefix(lines[i]).key]]
    ELSE [ok |-> FALSE, keys |-> <<>>]

\* The inner async block of the map closure: Result<(), CopyError>.
CopyKey(e) ==
    IF e.get = "fail" THEN "Error"
    ELSE IF e.get = "none" THEN "NotFound"
    ELSE IF e.put = "fail" THEN "Error"
    ELSE "Ok"

\* record_copy_result: the file chosen by the result.
FileFor(r) ==
    IF r = "Ok" THEN "successful" ELSE IF r = "NotFound" THEN "missing" ELSE "error"

\* The arguments and locals of run, and the content of the output files.
input_lines == tool.input_lines          \* the lines of the input file
strip_source_repo_prefix == tool.strip_source_repo_prefix
setup == tool.setup                      \* how the set-up goes: one of SetupOutcomes
keys == tool.keys                        \* the keys read from the input file, in file order
env == tool.env                          \* per input line: what the get and the put do for it
concurrency == tool.concurrency          \* --concurrency: the limit given to buffered()
ignore_errors == tool.ignore_errors      \* --ignore-errors
created == tool.created                  \* the output files OutputFiles::new has created
started == tool.started                  \* copy futures buffered() has pulled from the iterator
done == tool.done                        \* positions whose copy completed, in completion order
recorded == tool.recorded                \* positions the stream has yielded, in yield order
res == tool.res                          \* what record_copy_result returned for the item in hand
cpc == tool.cpc                          \* position in run: "start", "open", "next",
                                         \* "write_key", "write_nl", "match", "returned"
successful_file == tool.files["successful"]  \* OutputFiles.successful_file: its content
missing_file == tool.files["missing"]        \* OutputFiles.missing_file
error_file == tool.files["error"]            \* OutputFiles.error_file
werr == tool.werr                        \* files whose latest write failed, not yet reported
wfails == tool.wfails                    \* writes that have failed so far
copied == tool.copied                    \* run's counter `copied`
processed == tool.processed              \* run's counter `processed`
status == tool.status                    \* what run returned: "running", "ok" or "failed"

Range(s) == {s[j] : j \in 1..Len(s)}

\* buffered(): the stream yields the results in the order of the futures, so
\* only the oldest copy not yet yielded can be yielded, once it has completed.
Yieldable == {i \in Range(done) : i = Len(recorded) + 1}

\* The position in hand, its key's result and the file chosen for it.
InHand == recorded[Len(recorded)]
ResultInHand == CopyKey(env[InHand])
FileInHand == FileFor(ResultInHand)

InitCopy ==
    /\ phase = "building"
    /\ mandatory = TRUE
    /\ data = DataNone
    /\ nsets = 0
    /\ state = Absent
    /\ pc = "idle"
    /\ held = Absent
    /\ out = <<>>
    /\ polls = 0
    /\ panics = 0
    /\ innerPolls = 0
    /\ built = Absent
    /\ lastSet = Absent
    /\ lastPoll = "none"
    /\ lastGood = Absent
    /\ mparams = <<>>
    /\ aparams = <<>>
    /\ lastAdd = Absent
    /\ other = Absent
    /\ \E l \in InputFiles :
       \E e \in [1..Len(l) -> BlobstoreOutcomes] :
       \E c \in 0..MaxConcurrency :
       \E ig \in BOOLEAN :
       \E st \in BOOLEAN :
       \E su \in SetupOutcomes :
           tool = [tag |-> "Run", input_lines |-> l, strip_source_repo_prefix |-> st,
                   setup |-> su, env |-> e, concurrency |-> c, ignore_errors |-> ig,
                   keys |-> <<>>, created |-> {}, started |-> 0, done |-> <<>>,
                   recorded |-> <<>>, res |-> "none", cpc |-> "start",
                   files |-> [f \in FileNames |-> <<>>], werr |-> {}, wfails |-> 0,
                   copied |-> 0, processed |-> 0, status |-> "running"]

partVars == <<phase, mandatory, data, nsets, state, pc, held, out, polls, panics,
              innerPolls, built, lastSet, lastPoll, lastGood, paramVars, other>>

\* run up to `keys` being filled: the input file is named, opened and read
\* line by line; any failure, or a line without the prefix, returns Err.
ReadInput ==
    /\ cpc = "start"
    /\ LET r == ReadKeys(input_lines, strip_source_repo_prefix)
       IN  tool' = IF setup = "no_input" \/ ~r.ok
                   THEN [tool EXCEPT !.status = "failed", !.cpc = "returned"]
                   ELSE [tool EXCEPT !.keys = r.keys, !.cpc = "open"]
    /\ UNCHANGED partVars

\* OutputFiles::new(matches).await?: the three files are created together
\* (try_join3); when one fails, run returns Err and some of the others may exist.
OpenOutputs ==
    /\ cpc = "open"
    /\ IF setup = "no_output"
       THEN \E some \in (SUBSET FileNames) \ {FileNames} :
                tool' = [tool EXCEPT !.created = some, !.status = "failed",
                                     !.cpc = "returned"]
       ELSE tool' = [tool EXCEPT !.created = FileNames, !.cpc = "next"]
    /\ UNCHANGED partVars

\* buffered(concurrency), polled by s.next(): pulls the next copy future from
\* the key iterator while fewer than `concurrency` are in flight.
StartCopy ==
    /\ status = "running"
    /\ cpc = "next"
    /\ started < Len(keys)
    /\ started - Len(recorded) < concurrency
    /\ tool' = [tool EXCEPT !.started = @ + 1]
    /\ UNCHANGED partVars

\* One of the copies in flight completes; they complete in any order.
FinishCopy ==
    /\ status = "running"
    /\ cpc = "next"
    /\ \E i \in 1..started :
           /\ i \notin Range(done)
           /\ tool' = [tool EXCEPT !.done = Append(@, i)]
    /\ UNCHANGED partVars

\* s.next() yields (key, res); record_copy_result is called with it.
Yield ==
    /\ status = "running"
    /\ cpc = "next"
    /\ \E i \in Yieldable :
           tool' = [tool EXCEPT !.recorded = Append(@, i), !.cpc = "write_key"]
    /\ UNCHANGED partVars

\* record_copy_result: file.write_all(key.as_bytes()).await?  A write hands
\* the bytes to a blocking thread and returns Ok; whether that write failed
\* is reported by the next write to the same file.
WriteKey ==
    /\ cpc = "write_key"
    /\ IF FileInHand \in werr
       THEN tool' = [tool EXCEPT !.werr = @ \ {FileInHand}, !.res = "err", !.cpc = "match"]
       ELSE \/ tool' = [tool EXCEPT !.files[FileInHand] = Append(@, keys[InHand]),
                                    !.cpc = "write_nl"]
            \/ /\ wfails < MaxWriteFailures
               /\ tool' = [tool EXCEPT !.werr = @ \cup {FileInHand}, !.wfails = @ + 1,
                                       !.cpc = "write_nl"]
    /\ UNCHANGED partVars

\* record_copy_result: file.write(b"\n").await?, then the copy result is
\* handed back with context.
WriteNewline ==
    /\ cpc = "write_nl"
    /\ LET ret == IF ResultInHand = "Ok" THEN "ok" ELSE "err"
       IN  IF FileInHand \in werr
           THEN tool' = [tool EXCEPT !.werr = @ \ {FileInHand}, !.res = "err",
                                     !.cpc = "match"]
           ELSE \/ tool' = [tool EXCEPT !.files[FileInHand] = Append(@, NL),
                                        !.res = ret, !.cpc = "match"]
                \/ /\ wfails < MaxWriteFailures
                   /\ tool' = [tool EXCEPT !.werr = @ \cup {FileInHand},
                                           !.wfails = @ + 1, !.res = ret, !.cpc = "match"]
    /\ UNCHANGED partVars

\* The match on what record_copy_result returned, and processed += 1.
Handle ==
    /\ cpc = "match"
    /\ tool' = IF res = "ok"
               THEN [tool EXCEPT !.copied = @ + 1, !.processed = @ + 1,
                                 !.cpc = "next", !.res = "none"]
               ELSE IF ignore_errors
               THEN [tool EXCEPT !.processed = @ + 1, !.cpc = "next", !.res = "none"]
               ELSE [tool EXCEPT !.status = "failed", !.cpc = "returned", !.res = "none"]
    /\ UNCHANGED partVars

\* s.next() returns None: buffered() has found the key iterator exhausted, which
\* it looks at only while fewer than `concurrency` copies are in flight, and
\* every result has been yielded.  run returns Ok(()).
EndOfStream ==
    /\ status = "running"
    /\ cpc = "next"
    /\ Len(recorded) = Len(keys)
    /\ started - Len(recorded) < concurrency
    /\ tool' = [tool EXCEPT !.status = "ok", !.cpc = "returned"]
    /\ UNCHANGED partVars

NextCopy ==
    \/ ReadInput
    \/ OpenOutputs
    \/ StartCopy
    \/ FinishCopy
    \/ Yield
    \/ WriteKey
    \/ WriteNewline
    \/ Handle
    \/ EndOfStream

SpecCopy == InitCopy /\ [][NextCopy]_vars

\* The runtime keeps polling run(), and every blobstore call and write finishes.
SpecCopyLive == InitCopy /\ [][NextCopy]_vars /\ WF_vars(NextCopy)

(***************************************************************************)
(* Vocabulary of the properties.                                           *)
(***************************************************************************)
IsChunkItem(r) == r.kind = "chunk"
IsEmptyItem(r) == r.kind = "chunk" /\ IsEmpty(r.val)
IsNonEmptyChunkItem(r) == r.kind = "chunk" /\ ~IsEmpty(r.val)
NotEmptyItem(r) == ~IsEmptyItem(r)
IsNoneItem(r) == r.kind = "none"

ChunkItems(o) == SelectSeq(o, IsChunkItem)
Terminators(o) == SelectSeq(o, IsEmptyItem)
Last(o) == o[Len(o)]
IsPrefix(a, b) == Len(a) <= Len(b) /\ SubSeq(b, 1, Len(a)) = a

HeaderItem == ReadySome(HeaderEncode(built.header))
TerminatorItem == ReadySome(ChunkEmpty)

\* The inner sequence as the encoder is meant to see it: without empty chunks.
Filtered(stream) == SelectSeq(stream, NotEmptyItem)

\* The i-th item of: first, then the items of middle, then terminator, then
\* exhaustion for ever.
Expected(middle, i) ==
    IF i = 1 THEN HeaderItem
    ELSE IF i <= 1 + Len(middle) THEN middle[i - 1]
    ELSE IF i = 2 + Len(middle) THEN TerminatorItem
    ELSE ReadyNone

Follows(middle) ==
    /\ \A i \in 1..Len(out) : out[i] = Expected(middle, i)
    /\ panics = 0
    /\ pc = "idle" => Len(out) = polls

Encoding == phase = "encoding"

\* C1: over the life of a part exactly one zero-length chunk is yielded, and
\* it is the item yielded right before the first Ready(None).
C1_ExactlyOneTerminator ==
    /\ Len(Terminators(out)) <= 1
    /\ \A i \in 1..Len(out) :
           (IsNoneItem(out[i]) /\ \A j \in 1..(i - 1) : ~IsNoneItem(out[j]))
               => /\ i > 1
                  /\ IsEmptyItem(out[i - 1])
                  /\ Len(Terminators(out)) = 1

\* C2: whatever the payload, the first poll returns the encoded header: once a
\* poll has finished, the first returned value is Ready(Some(header.encode())).
C2_HeaderFirst ==
    (Encoding /\ (polls > 1 \/ (polls = 1 /\ pc = "idle")))
        => /\ Len(out) >= 1
           /\ out[1] = HeaderItem

C2_Witness ==
    /\ built.tag # "Absent"
    /\ built.data.tag = "Generated"
    /\ Len(out) = 1
    /\ out[1] = HeaderItem

\* What a generated part is to emit: the header chunk, the non-empty inner
\* chunks in order, the terminator.
C3_Emitted ==
    <<HeaderItem>> \o SelectSeq(built.data.stream, IsNonEmptyChunkItem) \o <<TerminatorItem>>

\* C3: for a generated payload the chunks emitted are the header chunk, the
\* non-empty inner chunks in order, then the terminator: the chunks emitted so
\* far are a prefix of that list, all of it once Done is reached, and no
\* zero-length chunk of the inner sequence is among them.
C3_GeneratedDropsEmpty ==
    (Encoding /\ built.data.tag = "Generated")
        => /\ IsPrefix(ChunkItems(out), C3_Emitted)
           /\ (pc = "idle" /\ state.tag = "Done") => ChunkItems(out) = C3_Emitted
           /\ Len(Terminators(out)) <= 1

C3_Witness ==
    /\ Encoding
    /\ built.data.tag = "Generated"
    /\ built.data.stream = <<ReadySome(<<9>>), ReadySome(<<>>), ReadySome(<<7, 7>>)>>
    /\ state.tag = "Done"
    /\ out = <<HeaderItem, ReadySome(<<9>>), ReadySome(<<7, 7>>), TerminatorItem>>

\* C4: once a poll has returned Ready(None), every later poll returns
\* Ready(None) without a panic, the state seen between polls is Done, and the
\* inner sequence is not polled.
C4_DoneAbsorbing ==
    [][(Len(out) > 0 /\ IsNoneItem(Last(out)))
           => /\ pc' = "idle" => state'.tag = "Done"
              /\ out' # out => out' = Append(out, ReadyNone)
              /\ panics' = panics
              /\ innerPolls' = innerPolls]_vars

C4_Witness ==
    /\ Len(out) >= 3
    /\ IsNoneItem(out[Len(out)])
    /\ IsNoneItem(out[Len(out) - 1])
    /\ IsNoneItem(out[Len(out) - 2])
    /\ state.tag = "Done"

\* C5: a poll in Generating whose inner sequence is not ready returns NotReady
\* and leaves Generating holding the same inner sequence, no payload item
\* consumed; and a poll that finds a chunk pending yields exactly that chunk.
C5_Suspension ==
    [][(pc = "taken" /\ held.tag = "Generating" /\ Filtered(held.stream) # <<>>)
           => LET pending == Head(Filtered(held.stream))
              IN  /\ pending.kind = "notready"
                      => /\ out' = Append(out, NotReady)
                         /\ state'.tag = "Generating"
                         /\ Filtered(state'.stream) = Tail(Filtered(held.stream))
                  /\ pending.kind = "chunk"
                      => /\ out' = Append(out, pending)
                         /\ state'.tag = "Generating"
                         /\ Filtered(state'.stream) = Tail(Filtered(held.stream))]_vars

C5_Witness ==
    /\ Len(out) = 4
    /\ out[2] = NotReady
    /\ out[3] = NotReady
    /\ out[4] = ReadySome(<<7, 7>>)
    /\ state.tag = "Generating"

\* C6: a poll in Generating whose inner sequence fails with e returns Err(e),
\* does not panic, emits no terminator and leaves the state Generating.
C6_ErrorSurfaced ==
    [][(pc = "taken" /\ held.tag = "Generating" /\ Filtered(held.stream) # <<>>
            /\ Head(Filtered(held.stream)).kind = "err")
           => /\ out' = Append(out, Err(Head(Filtered(held.stream)).val))
              /\ panics' = panics
              /\ state'.tag = "Generating"
              /\ Filtered(state'.stream) = Tail(Filtered(held.stream))]_vars

C6_Witness ==
    /\ Len(out) = 3
    /\ out[2] = ReadySome(<<9>>)
    /\ out[3] = Err(<<2>>)
    /\ pc = "idle"
    /\ state.tag = "Generating"

\* C7: a part built with no payload yields the header chunk, then the
\* terminator, then exhaustion, one per poll.
C7_NoPayload ==
    (Encoding /\ built.data.tag = "None") => Follows(<<>>)

C7_Witness ==
    /\ Encoding
    /\ nsets = 0
    /\ built.data.tag = "None"
    /\ out = <<HeaderItem, TerminatorItem, ReadyNone>>

\* C8: a part whose payload was last set to the chunk c by set_data_fixed, or
\* by a successful set_data_bytes, yields the header chunk, c itself, the
\* terminator, then exhaustion, one per poll.
C8_FixedPayload ==
    (Encoding /\ lastSet.tag # "Absent" /\ lastSet.ok
         /\ lastSet.op \in {"set_data_fixed", "set_data_bytes"})
        => Follows(<<ReadySome(lastSet.arg)>>)

C8_Witness ==
    /\ Encoding
    /\ lastSet.tag # "Absent"
    /\ lastSet.op = "set_data_bytes"
    /\ lastSet.ok
    /\ out = <<HeaderItem, ReadySome(<<7, 7>>), TerminatorItem, ReadyNone>>

\* C9: after a poll that returned to its caller the held state is NotStarted,
\* Fixed, Generating, EmptyChunk or Done; Invalid is held only between
\* state.take() and the write-back, or after a poll that unwound.
C9_ValidAfterReturn ==
    /\ (Encoding /\ pc = "idle" /\ lastPoll # "panicked")
           => state.tag \in {"NotStarted", "Fixed", "Generating", "EmptyChunk", "Done"}
    /\ state.tag = "Invalid" => (pc = "taken" \/ lastPoll = "panicked")

C9_Witness ==
    /\ pc = "idle"
    /\ lastPoll = "returned"
    /\ Len(out) = 2
    /\ out[2].kind = "err"
    /\ state.tag = "Generating"

\* C10: a poll that starts with the Invalid marker held panics: it returns no
\* value, and the marker stays, so every later poll panics too.
C10_InvalidPanics ==
    [][(state.tag = "Invalid" /\ (pc = "idle" \/ held.tag = "Invalid"))
           => /\ out' = out
              /\ state'.tag = "Invalid"
              /\ innerPolls' = innerPolls
              /\ pc = "taken" => (panics' = panics + 1 /\ lastPoll' = "panicked")]_vars

C10_Witness ==
    /\ pc = "idle"
    /\ state.tag = "Invalid"
    /\ panics >= 3

\* C15: the header chunk is emitted exactly once and the state only moves
\* forward: a poll that returns takes NotStarted to Fixed, Generating or
\* EmptyChunk, Fixed to EmptyChunk, Generating to Generating or Done,
\* EmptyChunk to Done and Done to Done; NotStarted is never held again.
IsHeaderItem(r) == r = HeaderItem

C15_Forward ==
    {<<"NotStarted", "Fixed">>, <<"NotStarted", "Generating">>, <<"NotStarted", "EmptyChunk">>,
     <<"Fixed", "EmptyChunk">>, <<"Generating", "Generating">>, <<"Generating", "Done">>,
     <<"EmptyChunk", "Done">>, <<"Done", "Done">>}

C15_HeaderOnceForward ==
    [][/\ (pc = "taken" /\ lastPoll' = "returned" /\ pc' = "idle")
           => <<held.tag, state'.tag>> \in C15_Forward
       /\ (Encoding /\ state.tag # "NotStarted") => state'.tag # "NotStarted"
       /\ (Encoding' /\ Len(out') >= 1) => Len(SelectSeq(out', IsHeaderItem)) = 1]_vars

C15_Witness ==
    /\ Encoding
    /\ pc = "idle"
    /\ state.tag = "Done"
    /\ Len(out) = 6
    /\ out[2] = NotReady
    /\ out[3].kind = "err"
    /\ out[4] = ReadySome(<<9>>)
    /\ Len(SelectSeq(out, IsHeaderItem)) = 1

\* C16: for a generated payload, at every point between polls what has been
\* returned after the header, followed by what the filtered inner sequence
\* still holds, is the filtered inner sequence that was supplied: every
\* non-empty chunk (and every not-ready and error result) is passed on once,
\* in order and unaltered; at Done the terminator follows them.
C16_Returned == SubSeq(out, 2, Len(out))

C16_GeneratedRefines ==
    (Encoding /\ built.data.tag = "Generated" /\ pc = "idle" /\ Len(out) >= 1)
        => /\ state.tag = "Generating"
               => C16_Returned \o Filtered(state.stream) = Filtered(built.data.stream)
           /\ state.tag = "Done"
               => \E n \in 1..Len(out) :
                      /\ SubSeq(out, 2, n) = Filtered(built.data.stream)
                      /\ out[n + 1] = TerminatorItem
                      /\ \A i \in (n + 2)..Len(out) : out[i] = ReadyNone

C16_Witness ==
    /\ Encoding
    /\ built.data.tag = "Generated"
    /\ built.data.stream = <<ReadySome(<<7, 7>>), NotReady, ReadySome(<<9>>)>>
    /\ pc = "idle"
    /\ state.tag = "Done"
    /\ out = <<HeaderItem, ReadySome(<<7, 7>>), NotReady, ReadySome(<<9>>), TerminatorItem>>

\* C17: a poll in NotStarted, Fixed, EmptyChunk or Done returns a chunk or
\* exhaustion, never NotReady or an error, without a panic and without polling
\* the inner sequence; a poll returns NotReady only in Generating with the
\* inner sequence not ready; so parts with payload None or Fixed never
\* suspend, never fail and never poll an inner sequence.
C17_SuspendsOnlyGenerating ==
    [][/\ (pc = "taken" /\ held.tag \in {"NotStarted", "Fixed", "EmptyChunk", "Done"})
           => /\ Len(out') = Len(out) + 1
              /\ Last(out').kind \in {"chunk", "none"}
              /\ innerPolls' = innerPolls
              /\ panics' = panics
       /\ (Len(out') = Len(out) + 1 /\ Last(out') = NotReady)
           => /\ held.tag = "Generating"
              /\ Filtered(held.stream) # <<>>
              /\ Head(Filtered(held.stream)) = NotReady
       /\ (Encoding' /\ built'.data.tag \in {"None", "Fixed"})
           => /\ \A i \in 1..Len(out') : out'[i].kind \in {"chunk", "none"}
              /\ innerPolls' = 0
              /\ panics' = 0]_vars

C17_Witness ==
    /\ Encoding
    /\ built.data.tag = "Fixed"
    /\ pc = "idle"
    /\ state.tag = "Done"
    /\ Len(out) = 5
    /\ innerPolls = 0

\* C18: after an error was yielded in Generating the state is Generating over
\* the rest of the same inner sequence; polling on yields the later inner
\* chunks in order, and once the inner sequence is exhausted exactly one
\* terminator, and the state is Done.
IsErrItem(r) == r.kind = "err"

C18_ResumesAfterError ==
    (Encoding /\ pc = "idle" /\ panics = 0 /\ Len(SelectSeq(out, IsErrItem)) >= 1)
        => /\ state.tag \in {"Generating", "Done"}
           /\ IsErrItem(Last(out))
               => /\ state.tag = "Generating"
                  /\ Filtered(state.stream)
                         = SubSeq(Filtered(built.data.stream), Len(out),
                                  Len(Filtered(built.data.stream)))
           /\ IsPrefix(ChunkItems(out), C3_Emitted)
           /\ state.tag = "Done"
               => /\ ChunkItems(out) = C3_Emitted
                  /\ Len(Terminators(out)) = 1

C18_Witness ==
    /\ Encoding
    /\ pc = "idle"
    /\ state.tag = "Done"
    /\ out = <<HeaderItem, Err(<<1>>), ReadySome(<<9>>), ReadySome(<<7, 7>>), TerminatorItem>>

\* C20: the poll that finds the inner sequence exhausted emits the terminator
\* and moves to Done, and from Done on the inner sequence is never polled: the
\* inner sequence is polled at most once past its last item.
C20_NoPollAfterExhaustion ==
    [][/\ (pc = "taken" /\ held.tag = "Generating" /\ Filtered(held.stream) = <<>>)
           => /\ out' = Append(out, TerminatorItem)
              /\ state' = Done
              /\ innerPolls' = innerPolls + Len(held.stream) + 1
       /\ (Encoding /\ (state.tag = "Done" \/ held.tag = "Done"))
           => innerPolls' = innerPolls
       /\ (Encoding' /\ built'.data.tag = "Generated")
           => innerPolls' <= Len(built'.data.stream) + 1]_vars

C20_Witness ==
    /\ Encoding
    /\ built.data.tag = "Generated"
    /\ Len(built.data.stream) = 2
    /\ innerPolls = 3
    /\ state.tag = "Done"
    /\ Len(out) >= 6

\* C13: when the inner sequence is finite, never fails and is ready after
\* finitely many not-ready results, a consumer that keeps polling eventually
\* gets the terminator and the state reaches Done; with payload None or Fixed
\* this holds whatever the environment does.
C13_Benign ==
    \/ built.data.tag \in {"None", "Fixed"}
    \/ /\ built.data.tag = "Generated"
       /\ \A i \in 1..Len(built.data.stream) :
              built.data.stream[i].kind \in {"chunk", "notready"}

C13_EventuallyDone ==
    [](Encoding /\ C13_Benign
           => <>(/\ pc = "idle"
                 /\ state.tag = "Done"
                 /\ Len(out) >= 2
                 /\ \E i \in 2..Len(out) : out[i] = TerminatorItem))

C13_Witness ==
    /\ Encoding
    /\ built.data.tag = "Generated"
    /\ built.data.stream = <<NotReady, ReadySome(<<9>>), NotReady>>
    /\ pc = "idle"
    /\ state.tag = "Done"
    /\ out = <<HeaderItem, NotReady, ReadySome(<<9>>), NotReady, TerminatorItem>>

\* The payload a payload-setting call asks for.
Asked(call) ==
    IF call.op \in {"set_data_fixed", "set_data_bytes"} THEN DataFixed(call.arg)
    ELSE IF call.op = "set_data_generated" THEN DataGenerated(call.arg)
    ELSE DataGenerated(FutureStream(call.arg))

\* The chunks a part with payload d emits when polled to the end.
EmittedFor(d) ==
    <<HeaderItem>>
        \o (IF d.tag = "Fixed" THEN <<ReadySome(d.chunk)>>
            ELSE IF d.tag = "Generated" THEN SelectSeq(d.stream, IsNonEmptyChunkItem)
            ELSE <<>>)
        \o <<TerminatorItem>>

\* C11: a payload-setting call never fails because a payload is already set
\* (only set_data_bytes fails, on a buffer that cannot be framed), and the
\* built part encodes the payload of the last successful call alone: its
\* chunks are those of that payload and only that payload's stream is polled.
C11_LastWriteWins ==
    /\ (lastSet.tag = "Call" /\ ~lastSet.ok)
           => (lastSet.op = "set_data_bytes" /\ Len(lastSet.arg) > ChunkMaxLen)
    /\ (lastSet.tag = "Call" /\ lastSet.op = "set_data_bytes" /\ Len(lastSet.arg) <= ChunkMaxLen)
           => lastSet.ok
    /\ lastGood.tag = "Call"
           => /\ phase = "building" => data = Asked(lastGood)
              /\ Encoding
                     => /\ built.data = Asked(lastGood)
                        /\ IsPrefix(ChunkItems(out), EmittedFor(Asked(lastGood)))
                        /\ (pc = "idle" /\ state.tag = "Done")
                               => ChunkItems(out) = EmittedFor(Asked(lastGood))
                        /\ innerPolls <= (IF Asked(lastGood).tag = "Generated"
                                          THEN Len(Asked(lastGood).stream) + 1 ELSE 0)

C11_Witness ==
    /\ Encoding
    /\ nsets = 2
    /\ lastSet.tag = "Call"
    /\ lastSet.op = "set_data_fixed"
    /\ lastSet.prev = <<"set_data_generated", TRUE>>
    /\ pc = "idle"
    /\ state.tag = "Done"
    /\ out = <<HeaderItem, ReadySome(<<9>>), TerminatorItem>>
    /\ innerPolls = 0

\* A part built after a failed set_data_bytes encodes the payload set before it.
C12_BuiltAsBefore ==
    (Encoding /\ lastSet.tag = "Call" /\ ~lastSet.ok)
        => /\ built.data = (IF lastGood.tag = "Call" THEN Asked(lastGood) ELSE DataNone)
           /\ IsPrefix(ChunkItems(out), EmittedFor(built.data))

\* C12: a set_data_bytes call whose buffer cannot be framed fails while the
\* builder is still being configured, with no PartEncode and nothing emitted,
\* and leaves the builder's payload as it was; a part built afterwards encodes
\* the payload set before the failing call (None if there was none).
C12_FailedBytesKeepsPayload ==
    [][/\ (nsets' = nsets + 1 /\ ~lastSet'.ok)
           => /\ lastSet'.op = "set_data_bytes"
              /\ data' = data
              /\ phase' = "building"
              /\ state' = Absent
              /\ out' = <<>>
       /\ C12_BuiltAsBefore']_vars

C12_Witness ==
    /\ Encoding
    /\ lastSet.tag = "Call"
    /\ ~lastSet.ok
    /\ lastSet.prev = <<"set_data_generated", TRUE>>
    /\ built.data = DataGenerated(<<ReadySome(<<7, 7>>)>>)
    /\ pc = "idle"
    /\ state.tag = "Done"
    /\ out = <<HeaderItem, ReadySome(<<7, 7>>), TerminatorItem>>

\* The header that is built holds the parameter maps as the builder has them.
C14_HeaderAsConfigured ==
    Encoding => /\ built.header.mparams = mparams
                /\ built.header.aparams = aparams
                /\ Len(out) >= 1 => out[1] = ReadySome(HeaderEncode(built.header))

\* C14: add_mparam with a key already in the mandatory parameters fails and
\* leaves the parameters of the header under construction as they were, the
\* key keeping its value; likewise add_aparam and the advisory parameters.
C14_DuplicateParamRejected ==
    [][/\ AddCount' = AddCount + 1
           => LET params == IF lastAdd'.op = "add_mparam" THEN mparams ELSE aparams
                  params2 == IF lastAdd'.op = "add_mparam" THEN mparams' ELSE aparams'
                  others == IF lastAdd'.op = "add_mparam" THEN aparams ELSE mparams
                  others2 == IF lastAdd'.op = "add_mparam" THEN aparams' ELSE mparams'
              IN  /\ others2 = others
                  /\ HasKey(params, lastAdd'.key)
                         => (~lastAdd'.ok /\ params2 = params)
       /\ C14_HeaderAsConfigured']_vars

C14_Witness ==
    /\ Encoding
    /\ lastAdd.tag = "Add"
    /\ lastAdd.op = "add_mparam"
    /\ ~lastAdd.ok
    /\ lastAdd.key = 1
    /\ lastAdd.val = 6
    /\ mparams = <<<<1, 5>>>>
    /\ Len(out) = 2
    /\ out[1] = ReadySome(<<1, 0, 1, 0, 1, 5>>)

\* What the first n polls of a PartEncode in state st return when nothing
\* else is polled in between (up to a poll that panics).
RECURSIVE AloneRun(_, _)
AloneRun(st, n) ==
    IF n = 0 THEN <<>>
    ELSE LET r == poll_next(st)
         IN  IF r.ret.kind = "panic" THEN <<>>
             ELSE <<r.ret>> \o AloneRun(r.next, n - 1)

C19_AsAlone ==
    /\ Encoding => out = AloneRun(NotStarted(built.header, built.data), Len(out))
    /\ other.out = AloneRun(NotStarted(other.built.header, other.built.data), Len(other.out))

\* C19: of two PartEncodes polled in any interleaving, each returns the values
\* it returns when polled alone: a step of a poll of one leaves the state and
\* the returned values of the other as they are.
C19_Independent ==
    /\ []C19_AsAlone
    /\ [][/\ other' # other => UNCHANGED <<state, held, pc, out, polls, innerPolls>>
          /\ <<state, held, pc, out>>' # <<state, held, pc, out>> => other' = other]_vars

C19_Witness ==
    /\ Encoding
    /\ built.data = DataGenerated(<<ReadySome(<<9>>)>>)
    /\ other.built.data = DataGenerated(<<ReadySome(<<7, 7>>), NotReady>>)
    /\ pc = "taken"
    /\ other.pc = "taken"
    /\ out = <<HeaderItem, ReadySome(<<9>>)>>
    /\ other.out = <<ReadySome(<<0, 1, 0, 0>>), ReadySome(<<7, 7>>), NotReady>>

(***************************************************************************)
(* The copy_blobstore_keys tool: what is recorded, and where.              *)
(***************************************************************************)
Succeeded(i) == env[i].get = "value" /\ env[i].put = "ok"
Missing(i) == env[i].get = "none"
Failed(i) == ~Succeeded(i) /\ ~Missing(i)

\* The content of a file that holds the keys of these positions, a line each.
LinesFor(positions) ==
    [j \in 1..(2 * Len(positions)) |->
        IF j % 2 = 1 THEN keys[positions[(j + 1) \div 2]] ELSE NL]

IsKey(token) == token # NL

EndsWithLine(file, key) ==
    /\ Len(file) >= 2
    /\ file[Len(file) - 1] = key
    /\ file[Len(file)] = NL

\* The file the claim assigns to the result of position i.
FileOf(i) ==
    IF Succeeded(i) THEN successful_file
    ELSE IF Missing(i) THEN missing_file
    ELSE error_file

\* record_copy_result is not in the middle of writing.
BetweenRecords == cpc \notin {"write_key", "write_nl"}

C21_Files ==
    BetweenRecords =>
        /\ successful_file = LinesFor(SelectSeq(recorded, Succeeded))
        /\ missing_file = LinesFor(SelectSeq(recorded, Missing))
        /\ error_file = LinesFor(SelectSeq(recorded, Failed))

C21_Counter ==
    /\ copied <= Len(SelectSeq(successful_file, IsKey))
    /\ cpc \in {"next", "returned"} => copied = Len(SelectSeq(successful_file, IsKey))

\* C21: every key whose copy result has been handed to record_copy_result is
\* a line of exactly one output file: the success file if the get returned a
\* value and the put succeeded, the missing file if the get returned None,
\* the error file otherwise; the line is already in its file when run
\* returns the failure; and `copied` counts keys of the success file only.
C21_OneFilePerResult ==
    /\ [](C21_Files /\ C21_Counter)
    /\ [][(status' = "failed" /\ cpc = "match")
            => /\ UNCHANGED <<successful_file, missing_file, error_file, recorded>>
               /\ EndsWithLine(FileOf(InHand), keys[InHand])]_vars

(***************************************************************************)
(* The copy_blobstore_keys tool: order of recording, and how run ends.     *)
(***************************************************************************)
\* run has read the keys and created the output files: it is in its loop or past it.
SetupDone == created = FileNames

AllTokens == Len(successful_file) + Len(missing_file) + Len(error_file)

AllSucceed == \A i \in 1..Len(input_lines) : Succeeded(i)

C22_InOrder == \A j \in 1..Len(recorded) : recorded[j] = j

C22_StopsAtFirstFailure ==
    (SetupDone /\ ~ignore_errors /\ status = "failed")
        => LET f == Len(recorded)
           IN  /\ f >= 1
               /\ ~Succeeded(f)
               /\ \A j \in 1..(f - 1) : Succeeded(j)
               /\ AllTokens = 2 * f
               /\ EndsWithLine(FileOf(f), keys[f])

C22_EndsOk ==
    /\ (SetupDone /\ ignore_errors) => status # "failed"
    /\ status = "ok" => /\ Len(recorded) = Len(keys)
                        /\ AllTokens = 2 * Len(keys)
                        /\ ~ignore_errors => AllSucceed

\* C22: once run is in its loop, results are recorded in the order of the
\* input file, whatever the order in which the copies complete; without
\* --ignore-errors run returns an error at the first key (in input order)
\* that is missing or fails, with that key recorded and no later key
\* recorded; with --ignore-errors every key is recorded and run returns Ok.
C22_OrderedAndStops ==
    /\ [](C22_InOrder /\ C22_StopsAtFirstFailure /\ C22_EndsOk)
    /\ (SetupDone ~> (status = IF ignore_errors \/ AllSucceed THEN "ok" ELSE "failed"))

====
